---- MODULE Spec2Model ----
EXTENDS Integers, Sequences, FiniteSets, TLC

(***************************************************************************)
(* Model of renovate-git-history-action: parseTable (the table parser),    *)
(* getGitHistoryDescription (the renderer) and run (the driver).            *)
(*                                                                         *)
(* Text is represented structurally.  A body is a sequence of lines; a     *)
(* line is a table row "| c1 | c2 | ... |" (its cells), a blank line, or a *)
(* free text line without "|".  A cell is [w |-> word, h |-> hashes]:     *)
(* a change cell  `<old>` -> `<new>`  carries h = <<old, new, arrowOk>>   *)
(* where old/new are hex runs [s |-> text, n |-> length, lc |-> lowercase *)
(* hex]; every other cell has h = <<>>.                                    *)
(***************************************************************************)

\* ---------------------------------------------------------------- parse --

Cell(w) == [w |-> w, h |-> <<>>]

HexTok(s, n, lc) == [s |-> s, n |-> n, lc |-> lc]

ChgCell(a, b, arrow) == [w |-> "chg", h |-> <<a, b, arrow>>]

EmptyCell == Cell("")

\* String.prototype.toLowerCase on the words of the model's vocabulary
ToLower(w) ==
  CASE w = "Package" -> "package"
    [] w = "PACKAGE" -> "package"
    [] w = "Update"  -> "update"
    [] w = "UPDATE"  -> "update"
    [] w = "Change"  -> "change"
    [] w = "Note"    -> "note"
    [] w = "Version" -> "version"
    [] OTHER         -> w

\* bounds of the hex groups of changeShaRegex  /`([0-9a-f]{7,40})` -> `([0-9a-f]{7,40})`/
MinHex == 7
MaxHex == 40

IsHexRun(t) == t.lc /\ MinHex <= t.n /\ t.n <= MaxHex

\* change.match(changeShaRegex) succeeds
ChangeShaMatches(c) ==
  Len(c.h) = 3 /\ c.h[3] /\ IsHexRun(c.h[1]) /\ IsHexRun(c.h[2])

\* the header regex /\| Package \| Update \| Change \|/i matches the line
\* starting at the "|" in front of cell j
HeaderAt(line, j) ==
  /\ line.k = "row"
  /\ j + 2 <= Len(line.c)
  /\ ToLower(line.c[j].w) = "package"
  /\ ToLower(line.c[j + 1].w) = "update"
  /\ ToLower(line.c[j + 2].w) = "change"

HeaderLines(body) ==
  {l \in 1..Len(body) : \E j \in 1..Len(body[l].c) : HeaderAt(body[l], j)}

HasHeader(body) == HeaderLines(body) # {}

Max2(a, b) == IF a >= b THEN a ELSE b

Min(S) == CHOOSE x \in S : \A y \in S : x <= y

\* tableStart: first line holding a match, first cell where it starts
HeaderLine(body) == Min(HeaderLines(body))
HeaderCell(body) ==
  Min({j \in 1..Len(body[HeaderLine(body)].c) : HeaderAt(body[HeaderLine(body)], j)})

RowL(cells) == [k |-> "row", c |-> cells, t |-> ""]
BlankL == [k |-> "blank", c |-> <<>>, t |-> ""]
TextL(s) == [k |-> "text", c |-> <<>>, t |-> s]

\* row.split("|").map(s => s.trim()) of a whole line
SplitLine(line) ==
  CASE line.k = "row"   -> <<EmptyCell>> \o line.c \o <<EmptyCell>>
    [] line.k = "blank" -> <<EmptyCell>>
    [] line.k = "text"  -> <<Cell(line.t)>>

\* the line from the "|" in front of cell j to its end, split
SplitFrom(line, j) == <<EmptyCell>> \o SubSeq(line.c, j, Len(line.c)) \o <<EmptyCell>>

\* the line up to (not including) the "|" in front of cell j, split
SplitUpTo(line, j) == <<EmptyCell>> \o SubSeq(line.c, 1, j - 1)

\* body.indexOf("\n\n", tableStart): a blank line l (l > header line) that
\* is followed by another line
BlankAfter(body) ==
  {l \in (HeaderLine(body) + 1)..(Len(body) - 1) : body[l].k = "blank"}

\* tableBody.split("\n") split into cells, with tableBody =
\* body.substring(tableStart, tableEnd); substring(tableStart, -1) is
\* substring(0, tableStart) when no "\n\n" follows the header
TableRows(body) ==
  LET hl == HeaderLine(body)
      hc == HeaderCell(body)
  IN IF BlankAfter(body) # {}
     THEN LET te == Min(BlankAfter(body))
          IN <<SplitFrom(body[hl], hc)>>
               \o [m \in 1..(te - hl - 1) |-> SplitLine(body[hl + m])]
     ELSE [m \in 1..(hl - 1) |-> SplitLine(body[m])]
            \o <<SplitUpTo(body[hl], hc)>>

NoField == [w |-> "<undefined>", h |-> <<>>]

\* the loop  for (let i = 0; i < row.length; i++) { header = tableHeader[i]... }
RECURSIVE FillUpdate(_, _, _, _)
FillUpdate(header, row, i, upd) ==
  IF i > Len(row) THEN upd
  ELSE LET name == ToLower(header[i].w)
           upd2 == IF name = "package" THEN [upd EXCEPT !.package = row[i]]
                   ELSE IF name = "update" THEN [upd EXCEPT !.update = row[i]]
                   ELSE IF name = "change" THEN [upd EXCEPT !.change = row[i]]
                   ELSE upd
       IN FillUpdate(header, row, i + 1, upd2)

EmptyUpdate == [package |-> NoField, update |-> NoField, change |-> NoField]

Truthy(c) == c # NoField /\ c.w # ""

\* one data row of parseTable: tableHeader[i] is undefined (TypeError on
\* .toLowerCase()) as soon as the row has more cells than the header
RowThrows(header, row) == Len(row) > Len(header)

\* filter (update === "digest"), !packageName || !change, changeSha match
RECURSIVE Qualifying(_, _)
Qualifying(header, data) ==
  IF data = <<>> THEN <<>>
  ELSE LET u == FillUpdate(header, Head(data), 1, EmptyUpdate)
           rest == Qualifying(header, Tail(data))
       IN IF /\ u.update # NoField /\ u.update.w = "digest"
             /\ Truthy(u.package) /\ Truthy(u.change)
             /\ ChangeShaMatches(u.change)
          THEN <<[url |-> u.package, oldSha |-> u.change.h[1].s,
                  newSha |-> u.change.h[2].s]>> \o rest
          ELSE rest

ParseTableNullOnEmpty(body) ==
  IF ~HasHeader(body) THEN [k |-> "null", v |-> <<>>]
  ELSE LET rows == TableRows(body)
           header == rows[1]
           data == IF Len(rows) >= 3 THEN SubSeq(rows, 3, Len(rows)) ELSE <<>>
       IN IF \E r \in 1..Len(data) : RowThrows(header, data[r])
          THEN [k |-> "throw", v |-> <<>>]
          ELSE IF Qualifying(header, data) = <<>> THEN [k |-> "null", v |-> <<>>]
          ELSE [k |-> "list", v |-> Qualifying(header, data)]

\* parseTable(body): [k |-> "null" | "throw" | "list", v |-> records]
ParseTable(body) ==
  IF ~HasHeader(body) THEN [k |-> "null", v |-> <<>>]
  ELSE LET rows == TableRows(body)
           header == rows[1]
           data == IF Len(rows) >= 3 THEN SubSeq(rows, 3, Len(rows)) ELSE <<>>
       IN IF \E r \in 1..Len(data) : RowThrows(header, data[r])
          THEN [k |-> "throw", v |-> <<>>]
          ELSE [k |-> "list", v |-> Qualifying(header, data)]

\* --------------------------------------------------- bodies fed to parse --

MaxDataRows == 2

H7   == HexTok("1111111", 7, TRUE)
H40  == HexTok("2222222222222222222222222222222222222222", 40, TRUE)
H6   == HexTok("333333", 6, TRUE)
HUp  == HexTok("ABCDEF1", 7, FALSE)
H41  == HexTok("44444444444444444444444444444444444444444", 41, TRUE)

ChgOK      == ChgCell(H7, H40, TRUE)
ChgOK2     == ChgCell(H40, H7, TRUE)
ChgShort   == ChgCell(H6, H7, TRUE)
ChgUpper   == ChgCell(HUp, H7, TRUE)
ChgNoArrow == ChgCell(H7, H40, FALSE)
Chg41      == ChgCell(H41, H7, TRUE)

PkgA == Cell("https://github.com/acme/lib")
PkgB == Cell("https://chromium.googlesource.com/x")

HeaderRows ==
  { RowL(<<Cell("Package"), Cell("Update"), Cell("Change")>>),
    RowL(<<Cell("PACKAGE"), Cell("UPDATE"), Cell("Change")>>),
    RowL(<<Cell("Package"), Cell("Update"), Cell("Change"), Cell("Note")>>),
    RowL(<<Cell("Note"), Cell("Package"), Cell("Update"), Cell("Change")>>) }

SepRow == RowL(<<Cell("---"), Cell("---"), Cell("---")>>)

DataRows ==
  { RowL(<<PkgA, Cell("digest"), ChgOK>>),
    RowL(<<PkgB, Cell("pin"), ChgOK>>),
    RowL(<<PkgB, Cell("digest"), ChgShort>>),
    RowL(<<EmptyCell, Cell("digest"), ChgOK2>>),
    RowL(<<PkgA, Cell("digest")>>),
    RowL(<<PkgB, Cell("digest"), ChgOK2, Cell("Note")>>),
    RowL(<<PkgA, Cell("digest"), ChgNoArrow>>),
    RowL(<<PkgB, Cell("digest"), ChgUpper>>),
    RowL(<<PkgA, Cell("digest"), Chg41>>) }

DataSeqs == UNION {[1..n -> DataRows] : n \in 0..MaxDataRows}

Prefixes ==
  { <<>>,
    <<TextL("This PR contains the following updates:"), BlankL>>,
    <<RowL(<<Cell("Package"), Cell("Update"), Cell("Version")>>), SepRow,
      RowL(<<PkgA, Cell("digest"), ChgOK>>)>> }

Ends ==
  { <<>>,
    <<BlankL>>,
    <<BlankL, BlankL>>,
    <<BlankL, TextL("---")>>,
    <<BlankL, RowL(<<PkgB, Cell("digest"), ChgOK2>>)>> }

Bodies ==
  {p \o <<h, SepRow>> \o d \o e : p \in Prefixes, h \in HeaderRows, d \in DataSeqs, e \in Ends}
  \cup {p \o d \o e : p \in Prefixes, d \in DataSeqs, e \in Ends}

\* ------------------------------------------------------------- render --

\* A repository reference is a base URL followed by a sequence of the
\* suffixes "/" and ".git"; marks are the host markers the base contains
\* (url.includes(...)).
GH    == [name |-> "https://github.com/acme/lib", marks |-> {"github.com"}]
GS    == [name |-> "https://chromium.googlesource.com/chromium/src", marks |-> {"googlesource.com"}]
BOTH  == [name |-> "https://github.com/mirror/googlesource.com", marks |-> {"github.com", "googlesource.com"}]
OtherHost == [name |-> "https://gitlab.com/acme/lib", marks |-> {}]

Ref(b, suf) == [base |-> b, suf |-> suf]

RECURSIVE JoinStrs(_)
JoinStrs(ss) == IF ss = <<>> THEN "" ELSE Head(ss) \o JoinStrs(Tail(ss))

\* the URL as a string
UrlStr(r) == r.base.name \o JoinStrs(r.suf)

Last(s) == s[Len(s)]
Front(s) == SubSeq(s, 1, Len(s) - 1)

NormalizeGitFirst(r) ==
  LET s1 == IF r.suf # <<>> /\ Last(r.suf) = ".git" THEN Front(r.suf) ELSE r.suf
      s2 == IF s1 # <<>> /\ Last(s1) = "/" THEN Front(s1) ELSE s1
  IN Ref(r.base, s2)

\* gitUpdate.url.replace(/\/$/, "").replace(/\.git$/, "")
Normalize(r) ==
  LET s1 == IF r.suf # <<>> /\ Last(r.suf) = "/" THEN Front(r.suf) ELSE r.suf
      s2 == IF s1 # <<>> /\ Last(s1) = ".git" THEN Front(s1) ELSE s1
  IN Ref(r.base, s2)

Includes(r, marker) == marker \in r.base.marks

\* the hashes a table row can carry: abbreviated or full
O7  == "1111111"
O40 == "1111111aaaaaaaaaaaaaaaaaaaaaaaaaaaaaaaaa"
N7  == "2222222"
N40 == "2222222bbbbbbbbbbbbbbbbbbbbbbbbbbbbbbbbb"

\* git rev-parse --short <sha> / git rev-parse <sha> in the clone, trimmed
GitShort(h) == IF h \in {O7, O40} THEN O7 ELSE N7
GitLong(h)  == IF h \in {O7, O40} THEN O40 ELSE N40

\* commits of the range log; subject is the space-separated words of %s
Commit1 == [hash |-> "c1c1c1c1c1c1c1c1c1c1c1c1c1c1c1c1c1c1c1c1", short |-> "c1c1c1c",
            date |-> "2024-01-02", email |-> "a@example.org", subj |-> <<"Fix", "build">>]
Commit2 == [hash |-> "d2d2d2d2d2d2d2d2d2d2d2d2d2d2d2d2d2d2d2d2", short |-> "d2d2d2d",
            date |-> "2024-01-03", email |-> "b@example.org", subj |-> <<"Roll", "", "deps">>]
Commit3 == [hash |-> "e3e3e3e3e3e3e3e3e3e3e3e3e3e3e3e3e3e3e3e3", short |-> "e3e3e3e",
            date |-> "2024-01-04", email |-> "c@example.org", subj |-> <<"">>]

\* one line of  git log --format="%H %h %ad %ae %s", as its " "-separated parts
LogLine(c) == <<c.hash, c.short, c.date, c.email>> \o c.subj

\* outputs of the range log in the order git prints them
Logs == {<<>>, <<Commit1>>, <<Commit2, Commit1>>, <<Commit1, Commit2, Commit3>>}

RECURSIVE JoinSp(_)
JoinSp(ws) ==
  IF ws = <<>> THEN "" ELSE IF Len(ws) = 1 THEN Head(ws) ELSE Head(ws) \o " " \o JoinSp(Tail(ws))

\* const parts = line.split(" "); hash = parts[0] ... subject = parts.slice(4).join(" ")
ParseLogLine(parts) ==
  [hash |-> parts[1], shortHash |-> parts[2], date |-> parts[3], email |-> parts[4],
   subject |-> JoinSp(SubSeq(parts, 5, Len(parts)))]

GitEntriesReversed(lines) == [i \in 1..Len(lines) |-> ParseLogLine(lines[Len(lines) - i + 1])]

GitEntries(lines) == [i \in 1..Len(lines) |-> ParseLogLine(lines[i])]

HostFormatGoogleFirst(url, us, os, ns, ol, nl, oldSha, newSha) ==
  IF Includes(url, "googlesource.com")
  THEN [desc |-> <<us, "/+log/", os, "..", ns>>,
        link |-> <<us, "/+log/", ol, "..", nl>>,
        prefix |-> <<us, "/+/">>, clickable |-> TRUE]
  ELSE IF Includes(url, "github.com")
  THEN [desc |-> <<us, "/compare/", os, "...", ns>>,
        link |-> <<us, "/compare/", ol, "...", nl>>,
        prefix |-> <<us, "/commit/">>, clickable |-> TRUE]
  ELSE [desc |-> <<us, " ", oldSha, "..", newSha>>, link |-> <<>>,
        prefix |-> <<>>, clickable |-> FALSE]

\* the if / else if / else on url.includes("github.com") / ("googlesource.com")
HostFormat(url, us, os, ns, ol, nl, oldSha, newSha) ==
  IF Includes(url, "github.com")
  THEN [desc |-> <<us, "/compare/", os, "...", ns>>,
        link |-> <<us, "/compare/", ol, "...", nl>>,
        prefix |-> <<us, "/commit/">>, clickable |-> TRUE]
  ELSE IF Includes(url, "googlesource.com")
  THEN [desc |-> <<us, "/+log/", os, "..", ns>>,
        link |-> <<us, "/+log/", ol, "..", nl>>,
        prefix |-> <<us, "/+/">>, clickable |-> TRUE]
  ELSE [desc |-> <<us, " ", oldSha, "..", newSha>>, link |-> <<>>,
        prefix |-> <<>>, clickable |-> FALSE]

\* for (const entry of gitEntries) resultString += ...
RECURSIVE CommitLines(_, _)
CommitLines(entries, fmt) ==
  IF entries = <<>> THEN <<>>
  ELSE LET e == Head(entries)
           line == IF fmt.prefix # <<>>
                   THEN <<"[", e.shortHash, "](">> \o fmt.prefix
                          \o <<e.hash, ") ", e.date, " ", e.email, " ", e.subject, "\n">>
                   ELSE <<e.shortHash, " ", e.date, " ", e.email, " ", e.subject, "\n">>
       IN line \o CommitLines(Tail(entries), fmt)

RangeLine(fmt) ==
  IF fmt.clickable THEN <<"- [">> \o fmt.desc \o <<"](">> \o fmt.link \o <<")\n\n">>
  ELSE <<"- ">> \o fmt.desc \o <<"\n\n">>

\* ${error} of a failed @actions/exec call
GitError == "Error: The process '/usr/bin/git' failed with exit code 128"

\* ${e} of a failed simple-git call: a GitError carrying git's stderr
SgitError(step) == "GitError: <stderr of git " \o step \o ">"

ErrorText(impl, step) == IF impl = "exec" THEN GitError ELSE SgitError(step)

\* the external steps that can fail
FailPoints == {"mkdtemp", "clone", "shortOld", "shortNew", "longOld", "longNew", "log"}

\* getGitHistoryDescription(gitUpdate) for the two renderers: "exec"
\* (src/unnamed/part_000, @actions/exec, try/finally rmSync) and "sgit"
\* (src/src/util.ts, simple-git, no removal).  fails: the steps whose git
\* call fails; lg: the commits the range log prints.  Result: k = "ok",
\* "fail" (a returned message) or "throw".  The simple-git log call always
\* fails: the option date: "format:%Y-%m-%d" reaches git as the bare argument
\* "date=format:%Y-%m-%d" (exit 128), and with a string format log.all would
\* hold objects on which line.split throws.  trace: the external steps run, in
\* order; failed: the step that failed; made/removed: the temp directory.
\* (a renderer whose long-sha catch returns only after the range log)
RenderLongShaReturnsLate(impl, rec, fails, lg) ==
  LET url == Normalize(rec.url)
      us == UrlStr(url)
      tClone == <<"mkdtemp", "clone " \o us>>
      tShortO == tClone \o <<"rev-parse --short " \o rec.oldSha>>
      tShortN == tShortO \o <<"rev-parse --short " \o rec.newSha>>
      tLongO == tShortN \o <<"rev-parse " \o rec.oldSha>>
      tLongN == tLongO \o <<"rev-parse " \o rec.newSha>>
      ol == GitLong(rec.oldSha)
      nl == GitLong(rec.newSha)
      \* exec: git log <ol>..<nl>; simple-git: log({from, to}) gives <ol>...<nl>
      tLog == tLongN \o <<"log " \o ol \o (IF impl = "exec" THEN ".." ELSE "...") \o nl>>
      cleaned == impl = "exec"
      fmt == HostFormat(url, us, GitShort(rec.oldSha), GitShort(rec.newSha),
                        IF impl = "exec" THEN ol ELSE rec.oldSha,
                        IF impl = "exec" THEN nl ELSE rec.newSha,
                        rec.oldSha, rec.newSha)
      entries == GitEntries([i \in 1..Len(lg) |-> LogLine(lg[i])])
      okText == IF impl = "exec"
                THEN RangeLine(fmt) \o <<"<details><summary>Details</summary>\n\n">>
                       \o CommitLines(entries, fmt) \o <<"</details>\n\n">>
                ELSE RangeLine(fmt) \o CommitLines(entries, fmt)
      R(k, text, trace, failed) == [k |-> k, text |-> text, trace |-> trace, failed |-> failed,
                            made |-> TRUE, removed |-> cleaned, rec |-> rec, log |-> lg, impl |-> impl]
  IN IF "mkdtemp" \in fails
     THEN [k |-> "throw", text |-> <<>>, trace |-> <<"mkdtemp">>, failed |-> "mkdtemp", made |-> FALSE,
           removed |-> FALSE, rec |-> rec, log |-> lg, impl |-> impl]
     ELSE IF "clone" \in fails
     THEN R("fail", <<"Failed to clone ", us, ": ", ErrorText(impl, "clone")>>, tClone, "clone")
     ELSE IF "shortOld" \in fails THEN R("throw", <<>>, tShortO, "shortOld")
     ELSE IF "shortNew" \in fails THEN R("throw", <<>>, tShortN, "shortNew")
     ELSE IF "longOld" \in fails
     THEN R("fail", <<"Failed to get long sha for ", rec.oldSha, ": ", ErrorText(impl, "rev-parse")>>, tLog, "longOld")
     ELSE IF "longNew" \in fails THEN R("throw", <<>>, tLongN, "longNew")
     ELSE IF "log" \in fails \/ impl = "sgit"
     THEN R("fail", <<"Failed to get git log: ", ErrorText(impl, "log")>>, tLog, "log")
     ELSE R("ok", okText, tLog, "none")

Render(impl, rec, fails, lg) ==
  LET url == Normalize(rec.url)
      us == UrlStr(url)
      tClone == <<"mkdtemp", "clone " \o us>>
      tShortO == tClone \o <<"rev-parse --short " \o rec.oldSha>>
      tShortN == tShortO \o <<"rev-parse --short " \o rec.newSha>>
      tLongO == tShortN \o <<"rev-parse " \o rec.oldSha>>
      tLongN == tLongO \o <<"rev-parse " \o rec.newSha>>
      ol == GitLong(rec.oldSha)
      nl == GitLong(rec.newSha)
      \* exec: git log <ol>..<nl>; simple-git: log({from, to}) gives <ol>...<nl>
      tLog == tLongN \o <<"log " \o ol \o (IF impl = "exec" THEN ".." ELSE "...") \o nl>>
      cleaned == impl = "exec"
      fmt == HostFormat(url, us, GitShort(rec.oldSha), GitShort(rec.newSha),
                        IF impl = "exec" THEN ol ELSE rec.oldSha,
                        IF impl = "exec" THEN nl ELSE rec.newSha,
                        rec.oldSha, rec.newSha)
      entries == GitEntries([i \in 1..Len(lg) |-> LogLine(lg[i])])
      okText == IF impl = "exec"
                THEN RangeLine(fmt) \o <<"<details><summary>Details</summary>\n\n">>
                       \o CommitLines(entries, fmt) \o <<"</details>\n\n">>
                ELSE RangeLine(fmt) \o CommitLines(entries, fmt)
      R(k, text, trace, failed) == [k |-> k, text |-> text, trace |-> trace, failed |-> failed,
                            made |-> TRUE, removed |-> cleaned, rec |-> rec, log |-> lg, impl |-> impl]
  IN IF "mkdtemp" \in fails
     THEN [k |-> "throw", text |-> <<>>, trace |-> <<"mkdtemp">>, failed |-> "mkdtemp", made |-> FALSE,
           removed |-> FALSE, rec |-> rec, log |-> lg, impl |-> impl]
     ELSE IF "clone" \in fails
     THEN R("fail", <<"Failed to clone ", us, ": ", ErrorText(impl, "clone")>>, tClone, "clone")
     ELSE IF "shortOld" \in fails THEN R("throw", <<>>, tShortO, "shortOld")
     ELSE IF "shortNew" \in fails THEN R("throw", <<>>, tShortN, "shortNew")
     ELSE IF "longOld" \in fails
     THEN R("fail", <<"Failed to get long sha for ", rec.oldSha, ": ", ErrorText(impl, "rev-parse")>>, tLongO, "longOld")
     ELSE IF "longNew" \in fails THEN R("throw", <<>>, tLongN, "longNew")
     ELSE IF "log" \in fails \/ impl = "sgit"
     THEN R("fail", <<"Failed to get git log: ", ErrorText(impl, "log")>>, tLog, "log")
     ELSE R("ok", okText, tLog, "none")

\* ---------------------------------------------------------------- state --

VARIABLES body, parsed, ppc

parseVars == <<body, parsed, ppc>>


\* ------------------------------------------------------------- driver --

MaxRecords == 2

Rec(b, suf, o, n) == [url |-> Ref(b, suf), oldSha |-> o, newSha |-> n]

Suffixes == {<<>>, <<"/">>, <<".git">>, <<".git", "/">>, <<"/", ".git">>}

AllRecs ==
  {Rec(b, s, p[1], p[2]) : b \in {GH, GS, BOTH, OtherHost}, s \in Suffixes,
                           p \in {<<O7, N7>>, <<O40, N40>>}}

RecPool == {Rec(GH, <<".git">>, O7, N7), Rec(GS, <<>>, O40, N40), Rec(OtherHost, <<"/">>, O7, N7)}

\* record lists parseTable hands to run()
RecordLists == UNION {[1..n -> RecPool] : n \in 0..MaxRecords} \cup {<<r>> : r \in AllRecs}

NoRec == Rec(GH, <<>>, "", "")

NoOut == [k |-> "none", text |-> <<>>, trace |-> <<>>, failed |-> "none", made |-> FALSE, removed |-> FALSE,
          rec |-> NoRec, log |-> <<>>, impl |-> "none"]

VARIABLES drv, impl, records, idx, description, frags, fragRecs, status, dirs, nextDir, lastOut

runVars == <<drv, impl, records, idx, description, frags, fragRecs, status, dirs, nextDir, lastOut>>

vars == <<body, parsed, ppc, drv, impl, records, idx, description, frags, fragRecs, status,
          dirs, nextDir, lastOut>>

Init ==
  /\ body = <<>>
  /\ parsed = [k |-> "none", v |-> <<>>]
  /\ ppc = "idle"
  /\ drv \in {"main.ts", "util.ts"}
  /\ impl \in {"exec", "sgit"}
  /\ records \in RecordLists
  /\ idx = 0
  /\ description = <<>>
  /\ frags = <<>>
  /\ fragRecs = <<>>
  /\ status = "running"
  /\ dirs = {}
  /\ nextDir = 1
  /\ lastOut = NoOut

\* one iteration of  for (const gitUpdate of gitUpdates)
\*   description += await getGitHistoryDescription(gitUpdate)
\* an exception leaves run() through its catch (core.setFailed)
RenderRecord ==
  /\ status = "running"
  /\ idx < Len(records)
  /\ \E fails \in SUBSET FailPoints, lg \in Logs :
       LET r == Render(impl, records[idx + 1], fails, lg)
       IN /\ lastOut' = r
          /\ nextDir' = nextDir + 1
          /\ dirs' = IF r.made /\ ~r.removed THEN dirs \cup {nextDir} ELSE dirs
          /\ IF r.k = "throw"
             THEN /\ status' = "aborted"
                  /\ UNCHANGED <<idx, description, frags, fragRecs>>
             ELSE /\ idx' = idx + 1
                  /\ description' = description \o r.text
                  /\ frags' = Append(frags, r.text)
                  /\ fragRecs' = Append(fragRecs, records[idx + 1])
                  /\ UNCHANGED status
  /\ UNCHANGED <<drv, impl, records, body, parsed, ppc>>

\* after the loop: the run() of src/src/util.ts stops on an empty
\* description ("Nothing to comment."), src/src/main.ts posts it anyway
\* the comment request (octokit.request) may reject; run() then ends in its
\* catch with core.setFailed and no comment
PostComment ==
  /\ status = "running"
  /\ idx = Len(records)
  /\ IF drv = "util.ts" /\ description = <<>>
     THEN status' = "nothing"
     ELSE status' \in {"posted", "postFailed"}
  /\ UNCHANGED <<drv, impl, records, idx, description, frags, fragRecs, dirs, nextDir, lastOut,
                 body, parsed, ppc>>

Next == RenderRecord \/ PostComment

Spec == Init /\ [][Next]_vars

\* parseTable applied to one pull-request body
ParseInit ==
  /\ body \in Bodies
  /\ parsed = [k |-> "none", v |-> <<>>]
  /\ ppc = "idle"
  /\ drv = "main.ts"
  /\ impl = "exec"
  /\ records = <<>>
  /\ idx = 0
  /\ description = <<>>
  /\ frags = <<>>
  /\ fragRecs = <<>>
  /\ status = "running"
  /\ dirs = {}
  /\ nextDir = 1
  /\ lastOut = NoOut

\* await parseTable(prBody)
Parse ==
  /\ ppc = "idle"
  /\ parsed' = ParseTable(body)
  /\ ppc' = "done"
  /\ UNCHANGED <<body, drv, impl, records, idx, description, frags, fragRecs, status, dirs,
                 nextDir, lastOut>>

ParseNext == Parse

ParseSpec == ParseInit /\ [][ParseNext]_vars

\* ------------------------------------------------------ parse properties --

\* the table's data lines as the natural-language description delimits
\* them: after the header line and the separator, up to the first blank
\* line that ends a paragraph ("\n\n"), else up to the end of the b
TableExtentEnd(b) ==
  IF BlankAfter(b) # {} THEN Min(BlankAfter(b)) ELSE Len(b) + 1

ExtentDataLines(b) ==
  [m \in 1..Max2(0, TableExtentEnd(b) - HeaderLine(b) - 2)
     |-> b[HeaderLine(b) + 1 + m]]

RowQualifies(line) ==
  /\ line.k = "row"
  /\ Len(line.c) >= 3
  /\ line.c[2].w = "digest"
  /\ line.c[1].w # ""
  /\ ChangeShaMatches(line.c[3])

RowRecord(line) ==
  [url |-> line.c[1], oldSha |-> line.c[3].h[1].s, newSha |-> line.c[3].h[2].s]

RECURSIVE ExpectedRecs(_)
ExpectedRecs(lines) ==
  IF lines = <<>> THEN <<>>
  ELSE (IF RowQualifies(Head(lines)) THEN <<RowRecord(Head(lines))>> ELSE <<>>)
         \o ExpectedRecs(Tail(lines))

ClaimRecords(b) == ExpectedRecs(ExtentDataLines(b))

ParsedSet == {parsed.v[i] : i \in 1..Len(parsed.v)}
ClaimSet(b) == {ClaimRecords(b)[i] : i \in 1..Len(ClaimRecords(b))}

\* ---------------------------------------------------------------- claims --

\* C1: getGitHistoryDescription never throws to its caller: every failure of
\* a git call (clone, rev-parse --short, rev-parse, log) is turned into the
\* returned text (only temp-directory creation is outside that set).
RenderNeverThrows == lastOut.k = "throw" => lastOut.trace = <<"mkdtemp">>

\* C2: after every render, success or failure, the temporary directory it
\* created no longer exists.
TempDirRemoved == dirs = {}

\* C3: a failing record never aborts the run: every record is rendered, a
\* clone failure yields "Failed to clone" with the normalized URL, and the
\* run only stops early on a temp-directory failure.
FailureIsolation ==
  /\ status = "aborted" => lastOut.trace = <<"mkdtemp">>
  /\ status = "posted" => Len(frags) = Len(records)
  /\ \A i \in 1..Len(frags) :
       frags[i][1] = "Failed to clone " => frags[i][2] = UrlStr(Normalize(fragRecs[i].url))

\* C4: parseTable returns null exactly when the body has no
\* "| Package | Update | Change |" header (case-insensitive).
ParseNullIffNoHeader == ppc = "done" => ((parsed.k = "null") <=> ~HasHeader(body))

ParseEmptyTableWitness ==
  /\ ppc = "done" /\ HasHeader(body) /\ parsed = [k |-> "list", v |-> <<>>]
  /\ \E l \in 1..Len(body) : body[l] \in DataRows

\* C5: with the header present, parseTable returns one record per digest row
\* with a package and a `hex` -> `hex` change, in row order.
ParseRowsExact == (ppc = "done" /\ HasHeader(body)) => parsed = [k |-> "list", v |-> ClaimRecords(body)]

\* C6: the rows parseTable reads are exactly those between the header and
\* the first blank line; rows after it never contribute, rows before it are
\* never lost.
ParseTableExtent == (ppc = "done" /\ parsed.k = "list") => ParsedSet = ClaimSet(body)

\* C7: parseTable never throws on a malformed data row.
ParseNeverThrows == ppc = "done" => parsed.k # "throw"

IsInfix(a, t) == \E i \in 0..(Len(t) - Len(a)) : SubSeq(t, i + 1, i + Len(a)) = a

ClaimUrl(o) == UrlStr(Normalize(o.rec.url))

ClaimHead(o, useLong) ==
  LET us == ClaimUrl(o)
      os == GitShort(o.rec.oldSha)
      ns == GitShort(o.rec.newSha)
      ol == IF useLong THEN GitLong(o.rec.oldSha) ELSE o.rec.oldSha
      nl == IF useLong THEN GitLong(o.rec.newSha) ELSE o.rec.newSha
      m == o.rec.url.base.marks
  IN IF "github.com" \in m
     THEN <<"- [", us, "/compare/", os, "...", ns, "](", us, "/compare/", ol, "...", nl, ")\n\n">>
     ELSE IF "googlesource.com" \in m
     THEN <<"- [", us, "/+log/", os, "..", ns, "](", us, "/+log/", ol, "..", nl, ")\n\n">>
     ELSE <<"- ", us, " ", o.rec.oldSha, "..", o.rec.newSha, "\n\n">>

ClaimCommitLink(o, c) ==
  LET m == o.rec.url.base.marks
  IN IF "github.com" \in m THEN <<"[", c.short, "](", ClaimUrl(o), "/commit/", c.hash, ") ">>
     ELSE IF "googlesource.com" \in m THEN <<"[", c.short, "](", ClaimUrl(o), "/+/", c.hash, ") ">>
     ELSE <<c.short, " ", c.date, " ">>

HostFormatting(useLong(_)) ==
  lastOut.k = "ok" =>
    /\ Len(lastOut.text) >= Len(ClaimHead(lastOut, useLong(lastOut)))
    /\ SubSeq(lastOut.text, 1, Len(ClaimHead(lastOut, useLong(lastOut))))
         = ClaimHead(lastOut, useLong(lastOut))
    /\ \A i \in 1..Len(lastOut.log) : IsInfix(ClaimCommitLink(lastOut, lastOut.log[i]), lastOut.text)
    /\ (lastOut.rec.url.base.marks = {} => \A i \in 1..Len(lastOut.text) : lastOut.text[i] # "](")

\* C8: host formatting by substring match on the normalized URL, github.com
\* first, then googlesource.com, else plain text with no link; the range
\* link uses the long (rev-parse) hashes, commit links the full hash.
HostFormattingLongLinks == HostFormatting(LAMBDA o : TRUE)

HostFormattingWitness ==
  /\ lastOut.k = "ok" /\ lastOut.rec.url.base = BOTH /\ Len(lastOut.log) >= 2
  /\ lastOut.rec.oldSha = O7

\* C9: the reference is normalized (one trailing "/", then one trailing
\* ".git" stripped) before cloning and before any link or message uses it.
SuffixedNames(b) == {b.name \o "/", b.name \o ".git", b.name \o ".git/"}

NormalizedReference ==
  (lastOut.k \in {"ok", "fail"}
     /\ lastOut.rec.url.suf \in {<<>>, <<"/">>, <<".git">>, <<".git", "/">>}) =>
    /\ Normalize(lastOut.rec.url) = Ref(lastOut.rec.url.base, <<>>)
    /\ lastOut.trace[2] = "clone " \o lastOut.rec.url.base.name
    /\ \A i \in 1..Len(lastOut.text) : lastOut.text[i] \notin SuffixedNames(lastOut.rec.url.base)
    /\ (lastOut.k = "ok" \/ lastOut.text[1] = "Failed to clone ") =>
         \E i \in 1..Len(lastOut.text) : lastOut.text[i] = lastOut.rec.url.base.name

NormalizedReferenceWitness ==
  /\ lastOut.k = "ok" /\ lastOut.rec.url.suf = <<".git", "/">>
  /\ lastOut.rec.url.base.marks # {}

\* C10: commit lines keep the range log's order, and the comment is the
\* fragments concatenated in the order of the records.
CommitShorts == {Commit1.short, Commit2.short, Commit3.short}

RECURSIVE Flatten(_)
Flatten(fs) == IF fs = <<>> THEN <<>> ELSE Head(fs) \o Flatten(Tail(fs))

OrderPreserved ==
  /\ lastOut.k = "ok" =>
       SelectSeq(lastOut.text, LAMBDA t : t \in CommitShorts)
         = [i \in 1..Len(lastOut.log) |-> lastOut.log[i].short]
  /\ description = Flatten(frags)
  /\ fragRecs = SubSeq(records, 1, Len(fragRecs))

OrderPreservedWitness ==
  /\ status = "posted" /\ Len(frags) = 2 /\ lastOut.k = "ok" /\ Len(lastOut.log) = 3

\* C11: within one render the external steps run in the order clone,
\* rev-parse --short (old, new), rev-parse (old, new), range log; a failing
\* step is the last one run; a clone failure returns "Failed to clone
\* {repoUrl}: {error}", a long-sha failure of oldHash "Failed to get long sha
\* for {oldHash}: {error}", a log failure "Failed to get git log: {error}".
StepIndex == [mkdtemp |-> 1, clone |-> 2, shortOld |-> 3, shortNew |-> 4,
              longOld |-> 5, longNew |-> 6, log |-> 7]

FullSteps(o) ==
  <<"mkdtemp", "clone " \o ClaimUrl(o),
    "rev-parse --short " \o o.rec.oldSha, "rev-parse --short " \o o.rec.newSha,
    "rev-parse " \o o.rec.oldSha, "rev-parse " \o o.rec.newSha,
    "log " \o GitLong(o.rec.oldSha) \o (IF o.impl = "exec" THEN ".." ELSE "...")
      \o GitLong(o.rec.newSha)>>

StrictStepSequence ==
  lastOut.k # "none" =>
    /\ lastOut.trace = SubSeq(FullSteps(lastOut), 1,
                              IF lastOut.failed = "none" THEN 7 ELSE StepIndex[lastOut.failed])
    /\ lastOut.failed = "clone" =>
         lastOut.k = "fail" /\ lastOut.text = <<"Failed to clone ", ClaimUrl(lastOut), ": ", ErrorText(lastOut.impl, "clone")>>
    /\ lastOut.failed = "longOld" =>
         lastOut.k = "fail"
         /\ lastOut.text = <<"Failed to get long sha for ", lastOut.rec.oldSha, ": ", ErrorText(lastOut.impl, "rev-parse")>>
    /\ lastOut.failed = "log" =>
         lastOut.k = "fail" /\ lastOut.text = <<"Failed to get git log: ", ErrorText(lastOut.impl, "log")>>

StrictStepSequenceWitness == lastOut.k = "fail" /\ lastOut.failed = "longOld"

====
